---- MODULE Spec2Model ----
(***************************************************************************)
(* A model of the Databricks serving chat application:                     *)
(*   - unity_catalog_tools.py : UnityCatalogClient (list_tables,           *)
(*     get_table_details, _execute_sql, get_related_tables, execute_tool)  *)
(*     and get_function_definitions;                                       *)
(*   - dbx_serving_client.py  : DatabricksServingChatClient (send_chat,    *)
(*     _extract_text, send_chat_with_tools);                               *)
(*   - app.py                 : the Streamlit script (session history,     *)
(*     chat input handler).                                                *)
(*                                                                         *)
(* Python strings are sequences of tokens: "" is << >>, concatenation and  *)
(* f-string interpolation are \o.  Japanese literals of the source are     *)
(* written as ASCII tokens, the source literal given in a comment.         *)
(***************************************************************************)
EXTENDS Integers, Sequences, FiniteSets, TLC

VARIABLES
    \* ---- DatabricksServingChatClient.send_chat_with_tools (one run)
    pc,                 \* position of the run: idle, call_model, exec_tools, plain, returned, raised
    uc_client,          \* self.uc_client is set (TRUE) or None (FALSE)
    max_iterations,     \* the max_iterations argument
    messages,           \* the caller's message list
    working_messages,   \* the run's working copy
    iteration,          \* number of loop iterations started (range(max_iterations))
    tool_calls,         \* message.tool_calls of the response being processed
    tc_index,           \* number of tool calls of that response already executed
    calls,              \* every chat.completions.create request issued, in order
    responses,          \* the message of every response the loop received, in order
    result,             \* the run's return value (or the exception on pc = raised)
    mdOps,              \* Metadata Client / SDK operations invoked, in order
    exec,               \* the last execute_tool invocation: inputs and output
    world,              \* the SDK's answers and WAREHOUSE_ID, as the client sees them
    \* ---- app.py (the Streamlit session)
    app_pc,             \* fresh (no script run yet), ready (a script run has ended), crashed
    session_messages,   \* st.session_state.messages
    system_prompt,      \* value of the "System prompt" text area
    prompt,             \* value returned by st.chat_input in the current script run
    turn_start,         \* session_messages when the last script run reached the chat input
    serving_calls,      \* number of call_serving_chat invocations of the last script run
    last_event,         \* what started the last script run, and the exception it met
    \* ---- a function or method called on its own
    last_call           \* the last such call: its name, its inputs and its outcome

vars == <<pc, uc_client, max_iterations, messages, working_messages, iteration,
          tool_calls, tc_index, calls, responses, result, mdOps, exec, world,
          app_pc, session_messages, system_prompt, prompt, turn_start,
          serving_calls, last_event, last_call>>

loopVars == <<pc, uc_client, max_iterations, messages, working_messages, iteration,
              tool_calls, tc_index, calls, responses, result, mdOps, exec, world>>

appVars == <<app_pc, session_messages, system_prompt, prompt, turn_start,
             serving_calls, last_event>>

callVars == <<last_call>>

-----------------------------------------------------------------------------
(* Python values *)

\* Python's None: a value no string of the model equals.
None == <<"<None>">>

\* A key that a dict does not hold.
Absent == <<"<absent>">>

\* Python truthiness of a string-or-None value: None and "" are falsy.
Truthy(v) == v # None /\ v # << >>

\* `v or ""`
OrEmpty(v) == IF Truthy(v) THEN v ELSE << >>

\* The outcome of a call: a return value or a raised exception; ops are the
\* Metadata Client and SDK operations the call invoked, in order.
Return(v, ops) == [raised |-> FALSE, value |-> v, type |-> "", msg |-> << >>, ops |-> ops]

Raise(type, msg, ops) == [raised |-> TRUE, value |-> None, type |-> type, msg |-> msg, ops |-> ops]

\* dict.get(key) on a JSON object held as a function ArgKeys -> value or Absent.
DictGet(d, key) == IF d[key] = Absent THEN None ELSE d[key]

RECURSIVE Concat(_)
\* "".join(texts)
Concat(texts) == IF texts = << >> THEN << >> ELSE Head(texts) \o Concat(Tail(texts))

\* Whether text `part` occurs in text `whole` as a contiguous run of tokens.
Contains(whole, part) ==
    \E i \in 0..(Len(whole) - Len(part)) :
        \A j \in 1..Len(part) : whole[i + j] = part[j]

\* The items of sequence s, as a set.
Range(s) == {s[i] : i \in 1..Len(s)}

-----------------------------------------------------------------------------
(* unity_catalog_tools.py: UnityCatalogClient *)

\* The SDK and the process environment, as one execute_tool call sees them:
\*   list         outcome of w.tables.list: it raises (msg) or yields tables
\*   get          outcome of w.tables.get: it raises (msg) or yields info
\*   warehouse_id os.environ.get("WAREHOUSE_ID"): None, "" or an id
\*   sql          outcomes of the successive execute_statement calls: each
\*                raises (msg) or yields columns and data_array
\* A list-valued attribute that may be None is a pair: the list and a flag
\* (columns_none, data_none) saying that the attribute is None.

\* Mutant: a schema without tables is an error.
list_tables_EmptyRaises(catalog, schema, env) ==
    LET ops == <<"list_tables", "w.tables.list">>
    IN IF env.list.raises \/ env.list.tables = << >>
       THEN Raise("RuntimeError", <<"list_tables failed: ">> \o env.list.msg, ops)
       ELSE Return([i \in 1..Len(env.list.tables) |->
                       LET t == env.list.tables[i]
                       IN [name |-> t.name,
                           table_type |-> IF t.table_type # None
                                          THEN t.table_type ELSE <<"UNKNOWN">>,
                           comment |-> OrEmpty(t.comment)]],
                   ops)

\* UnityCatalogClient.list_tables
list_tables(catalog, schema, env) ==
    LET ops == <<"list_tables", "w.tables.list">>
    IN IF env.list.raises
       THEN \* "テーブル一覧の取得に失敗しました: {e}"
            Raise("RuntimeError", <<"list_tables failed: ">> \o env.list.msg, ops)
       ELSE Return([i \in 1..Len(env.list.tables) |->
                       LET t == env.list.tables[i]
                       IN [name |-> t.name,
                           table_type |-> IF t.table_type # None
                                          THEN t.table_type ELSE <<"UNKNOWN">>,
                           comment |-> OrEmpty(t.comment)]],
                   ops)

\* f"{catalog}.{schema}.{table}"
FullName(catalog, schema, table) == catalog \o <<".">> \o schema \o <<".">> \o table

\* UnityCatalogClient.get_table_details
get_table_details(catalog, schema, table, env) ==
    LET ops == <<"get_table_details", "w.tables.get">>
        full_name == FullName(catalog, schema, table)
    IN IF env.get.raises
       THEN \* "テーブル '{catalog}.{schema}.{table}' の詳細取得に失敗しました: {e}"
            Raise("RuntimeError",
                  <<"get_table_details failed for '">> \o full_name \o <<"': ">>
                      \o env.get.msg,
                  ops)
       ELSE LET info == env.get.info
                cols == IF info.columns_none THEN << >> ELSE info.columns
            IN Return([full_name |-> full_name,
                       name |-> info.name,
                       catalog |-> info.catalog_name,
                       schema |-> info.schema_name,
                       table_type |-> IF info.table_type # None
                                      THEN info.table_type ELSE <<"UNKNOWN">>,
                       comment |-> OrEmpty(info.comment),
                       columns |-> [i \in 1..Len(cols) |->
                                      [name |-> cols[i].name,
                                       type |-> IF cols[i].type_name # None
                                                THEN cols[i].type_name ELSE <<"UNKNOWN">>,
                                       comment |-> OrEmpty(cols[i].comment)]]],
                      ops)

\* "環境変数 WAREHOUSE_ID が設定されていません"
WarehouseNotSetMsg == <<"environment variable WAREHOUSE_ID is not set">>

\* "SQL の実行に失敗しました: "
SqlFailedPrefix == <<"SQL execution failed: ">>

\* Mutant: a failed statement is executed once more.
execute_sql_Retry(query, catalog, schema, warehouse_id, outcome) ==
    IF ~Truthy(warehouse_id)
    THEN Raise("RuntimeError", SqlFailedPrefix \o WarehouseNotSetMsg, <<"_execute_sql">>)
    ELSE IF outcome.raises
    THEN Raise("RuntimeError", SqlFailedPrefix \o outcome.msg,
               <<"_execute_sql", "execute_statement", "execute_statement">>)
    ELSE Return([columns |-> IF ~outcome.columns_none THEN outcome.columns ELSE << >>,
                 rows |-> IF ~outcome.data_none THEN outcome.data_array ELSE << >>],
                <<"_execute_sql", "execute_statement">>)

\* Mutant: the row data is read without the test for None.
execute_sql_RowsRequired(query, catalog, schema, warehouse_id, outcome) ==
    IF ~Truthy(warehouse_id)
    THEN Raise("RuntimeError", SqlFailedPrefix \o WarehouseNotSetMsg, <<"_execute_sql">>)
    ELSE IF outcome.raises
    THEN Raise("RuntimeError", SqlFailedPrefix \o outcome.msg,
               <<"_execute_sql", "execute_statement">>)
    ELSE IF outcome.data_none
    THEN Raise("RuntimeError", SqlFailedPrefix \o <<"'NoneType' object is not iterable">>,
               <<"_execute_sql", "execute_statement">>)
    ELSE Return([columns |-> IF ~outcome.columns_none THEN outcome.columns ELSE << >>,
                 rows |-> outcome.data_array],
                <<"_execute_sql", "execute_statement">>)

\* UnityCatalogClient._execute_sql; outcome is the SDK's answer to this
\* statement, should it be issued.
execute_sql(query, catalog, schema, warehouse_id, outcome) ==
    IF ~Truthy(warehouse_id)
    THEN \* raised inside the try, so wrapped like any other failure
         Raise("RuntimeError", SqlFailedPrefix \o WarehouseNotSetMsg, <<"_execute_sql">>)
    ELSE LET ops == <<"_execute_sql", "execute_statement">>
         IN IF outcome.raises
            THEN Raise("RuntimeError", SqlFailedPrefix \o outcome.msg, ops)
            ELSE Return([columns |-> IF ~outcome.columns_none /\ outcome.columns # << >>
                                     THEN outcome.columns ELSE << >>,
                         rows |-> IF ~outcome.data_none /\ outcome.data_array # << >>
                                  THEN outcome.data_array ELSE << >>],
                        ops)

\* Index of the edge of `edges` with constraint c, 0 when there is none.
EdgeIndex(edges, c) ==
    IF \E i \in 1..Len(edges) : edges[i].constraint = c
    THEN CHOOSE i \in 1..Len(edges) : edges[i].constraint = c
    ELSE 0

\* Mutant: every row gives an edge of its own.
GroupRows_PerRow(rows, edges, tIdx, cIdx, sIdx, gIdx) ==
    edges \o [i \in 1..Len(rows) |->
                [table |-> rows[i][tIdx], constraint |-> rows[i][cIdx],
                 columns |-> << [source |-> rows[i][sIdx], target |-> rows[i][gIdx]] >>]]

RECURSIVE GroupRows(_, _, _, _, _, _)
\* The grouping loops of get_related_tables: rows are grouped by constraint
\* name, in order of first appearance (a dict keeps insertion order); tIdx,
\* cIdx, sIdx and gIdx are the positions of the peer table, the constraint
\* name, the source column and the target column in a row.
GroupRows(rows, edges, tIdx, cIdx, sIdx, gIdx) ==
    IF rows = << >> THEN edges
    ELSE LET row == Head(rows)
             pair == [source |-> row[sIdx], target |-> row[gIdx]]
             i == EdgeIndex(edges, row[cIdx])
             next == IF i = 0
                     THEN Append(edges, [table |-> row[tIdx],
                                         constraint |-> row[cIdx],
                                         columns |-> <<pair>>])
                     ELSE [edges EXCEPT ![i].columns = Append(@, pair)]
         IN GroupRows(Tail(rows), next, tIdx, cIdx, sIdx, gIdx)

\* "テーブル '{catalog}.{schema}.{table}' の関連テーブル取得に失敗しました: "
RelatedFailedPrefix(catalog, schema, table) ==
    <<"get_related_tables failed for '">> \o FullName(catalog, schema, table) \o <<"': ">>

\* UnityCatalogClient.get_related_tables
get_related_tables(catalog, schema, table, env) ==
    LET q1 == [kind |-> "referenced_by", catalog |-> catalog, schema |-> schema, table |-> table]
        q2 == [kind |-> "references", catalog |-> catalog, schema |-> schema, table |-> table]
        r1 == execute_sql(q1, catalog, schema, env.warehouse_id, env.sql[1])
        r2 == execute_sql(q2, catalog, schema, env.warehouse_id, env.sql[2])
        prefix == RelatedFailedPrefix(catalog, schema, table)
        ops1 == <<"get_related_tables">> \o r1.ops
        ops2 == ops1 \o r2.ops
    IN IF r1.raised THEN Raise("RuntimeError", prefix \o r1.msg, ops1)
       ELSE IF r2.raised THEN Raise("RuntimeError", prefix \o r2.msg, ops2)
       ELSE IF \E i \in 1..Len(r1.value.rows) : Len(r1.value.rows[i]) # 4
       THEN \* the tuple unpacking of a row raises ValueError
            Raise("RuntimeError", prefix \o <<"unpack">>, ops2)
       ELSE IF \E i \in 1..Len(r2.value.rows) : Len(r2.value.rows[i]) # 4
       THEN Raise("RuntimeError", prefix \o <<"unpack">>, ops2)
       ELSE Return([table |-> table,
                    referenced_by |-> GroupRows(r1.value.rows, << >>, 1, 2, 3, 4),
                    references |-> GroupRows(r2.value.rows, << >>, 3, 1, 2, 4)],
                   ops2)

-----------------------------------------------------------------------------
(* unity_catalog_tools.py: execute_tool and get_function_definitions *)

\* The parameter names the tools take.
ArgKeys == {"catalog", "schema", "table"}

\* "Error: catalog と schema は必須パラメータです"
MissingCatalogSchemaText == <<"Error: catalog and schema are required parameters">>

\* "Error: catalog, schema, table は必須パラメータです"
MissingCatalogSchemaTableText == <<"Error: catalog, schema, table are required parameters">>

\* f"Error: 不明なツール名 '{tool_name}'"
UnknownToolText(tool_name) == <<"Error: unknown tool name '", tool_name, "'">>

\* f"エラー: {str(e)}"
RuntimeErrorText(msg) == <<"Error(ja): ">> \o msg

\* f"予期しないエラーが発生しました: {str(e)}"
UnexpectedErrorText(msg) == <<"An unexpected error occurred: ">> \o msg

\* str(e) of the AttributeError that `arguments.get` raises on a JSON value
\* that is not an object.
NoGetAttributeMsg == <<"object has no attribute 'get'">>

RECURSIVE FormatItems(_)
\* One line per table or column: f"- {name} ({type})", f": {comment}" when
\* the comment is not empty, then "\n".
FormatItems(items) ==
    IF items = << >> THEN << >>
    ELSE LET it == Head(items)
         IN <<"- ">> \o it.name \o <<" (">> \o it.type \o <<")">>
            \o (IF it.comment # << >> THEN <<": ">> \o it.comment ELSE << >>)
            \o <<"\n">> \o FormatItems(Tail(items))

\* The text execute_tool builds from list_tables' result.
FormatTables(catalog, schema, tables) ==
    IF tables = << >>
    THEN \* f"スキーマ {catalog}.{schema} にはテーブルが見つかりませんでした。"
         <<"no tables found in schema ">> \o catalog \o <<".">> \o schema
    ELSE \* f"スキーマ {catalog}.{schema} 内のテーブル一覧:\n\n"
         <<"tables in schema ">> \o catalog \o <<".">> \o schema \o <<":\n\n">>
         \o FormatItems([i \in 1..Len(tables) |->
                           [name |-> tables[i].name, type |-> tables[i].table_type,
                            comment |-> tables[i].comment]])

\* The text execute_tool builds from get_table_details' result.
FormatDetails(details) ==
    <<"table: ">> \o details.full_name \o <<"\n">>
    \o <<"type: ">> \o details.table_type \o <<"\n">>
    \o (IF details.comment # << >>
        THEN <<"description: ">> \o details.comment \o <<"\n">> ELSE << >>)
    \o <<"\ncolumns:\n">>
    \o FormatItems(details.columns)

RECURSIVE FormatPairs(_, _, _)
\* f"  {left}.{col['source']} → {right}.{col['target']}\n" per column pair
FormatPairs(cols, left, right) ==
    IF cols = << >> THEN << >>
    ELSE <<"  ">> \o left \o <<".">> \o Head(cols).source \o <<" -> ">>
         \o right \o <<".">> \o Head(cols).target \o <<"\n">>
         \o FormatPairs(Tail(cols), left, right)

RECURSIVE FormatEdges(_, _, _)
\* f"- {ref['table']} (制約: {ref['constraint']})\n" and the edge's column
\* pairs; incoming edges read peer.source -> table.target, outgoing ones
\* table.source -> peer.target.
FormatEdges(edges, table, incoming) ==
    IF edges = << >> THEN << >>
    ELSE LET ref == Head(edges)
         IN <<"- ">> \o ref.table \o <<" (constraint: ">> \o ref.constraint \o <<")\n">>
            \o (IF incoming THEN FormatPairs(ref.columns, ref.table, table)
                            ELSE FormatPairs(ref.columns, table, ref.table))
            \o FormatEdges(Tail(edges), table, incoming)

\* The text execute_tool builds from get_related_tables' result.
FormatRelated(catalog, schema, table, related) ==
    <<"relations of table ">> \o FullName(catalog, schema, table) \o <<":\n\n">>
    \o <<"[tables referencing this table]\n">>
    \o (IF related.referenced_by # << >>
        THEN FormatEdges(related.referenced_by, table, TRUE) \o <<"\n">>
        ELSE <<"(none)\n\n">>)
    \o <<"[tables this table references]\n">>
    \o (IF related.references # << >>
        THEN FormatEdges(related.references, table, FALSE) \o <<"\n">>
        ELSE <<"(none)\n\n">>)

\* Mutant: the list_tables branch tests the arguments for None only.
MissingListArgs_NoneOnly(catalog, schema) == catalog = None \/ schema = None

\* `if not catalog or not schema:` of the list_tables branch
MissingListArgs(catalog, schema) == ~Truthy(catalog) \/ ~Truthy(schema)

\* Mutant: the table argument is not tested.
MissingTableArgs_NoTable(catalog, schema, table) == ~Truthy(catalog) \/ ~Truthy(schema)

\* `if not catalog or not schema or not table:` of the other two branches
MissingTableArgs(catalog, schema, table) ==
    ~Truthy(catalog) \/ ~Truthy(schema) \/ ~Truthy(table)

\* The dispatch of execute_tool for arguments that are a JSON object.
Dispatch(tool_name, d, env) ==
    LET catalog == DictGet(d, "catalog")
        schema == DictGet(d, "schema")
        table == DictGet(d, "table")
    IN CASE tool_name = "list_tables" ->
              IF MissingListArgs(catalog, schema)
              THEN Return(MissingCatalogSchemaText, << >>)
              ELSE LET r == list_tables(catalog, schema, env)
                   IN IF r.raised THEN r
                      ELSE Return(FormatTables(catalog, schema, r.value), r.ops)
         [] tool_name = "get_table_details" ->
              IF MissingTableArgs(catalog, schema, table)
              THEN Return(MissingCatalogSchemaTableText, << >>)
              ELSE LET r == get_table_details(catalog, schema, table, env)
                   IN IF r.raised THEN r
                      ELSE Return(FormatDetails(r.value), r.ops)
         [] tool_name = "get_related_tables" ->
              IF MissingTableArgs(catalog, schema, table)
              THEN Return(MissingCatalogSchemaTableText, << >>)
              ELSE LET r == get_related_tables(catalog, schema, table, env)
                   IN IF r.raised THEN r
                      ELSE Return(FormatRelated(catalog, schema, table, r.value), r.ops)
         [] OTHER -> Return(UnknownToolText(tool_name), << >>)

\* The names execute_tool dispatches on.
DispatchedNames == {"list_tables", "get_table_details", "get_related_tables"}

\* Mutant: execute_tool has no except clause.
Handle_Propagate(r) == r

\* The except clauses of execute_tool: a RuntimeError and any other
\* Exception become text.
Handle(r) ==
    IF ~r.raised THEN r
    ELSE IF r.type = "RuntimeError" THEN Return(RuntimeErrorText(r.msg), r.ops)
    ELSE Return(UnexpectedErrorText(r.msg), r.ops)

\* UnityCatalogClient.execute_tool; arguments is the parsed JSON value: an
\* object (kind "dict", d its items) or another value, on which `.get` raises
\* AttributeError.
execute_tool(tool_name, arguments, env) ==
    Handle(IF tool_name \in DispatchedNames /\ arguments.kind # "dict"
           THEN Raise("AttributeError", NoGetAttributeMsg, << >>)
           ELSE Dispatch(tool_name, arguments.d, env))

\* Mutant: a tool is declared under a name the dispatch does not know.
get_function_definitions_Renamed ==
    << [type |-> "function", name |-> "List_Tables",
        properties |-> {"catalog", "schema"}, required |-> <<"catalog", "schema">>],
       [type |-> "function", name |-> "get_table_details",
        properties |-> {"catalog", "schema", "table"},
        required |-> <<"catalog", "schema", "table">>],
       [type |-> "function", name |-> "get_related_tables",
        properties |-> {"catalog", "schema", "table"},
        required |-> <<"catalog", "schema", "table">>] >>

\* get_function_definitions: each tool's name and required parameters, in
\* the order declared.
get_function_definitions ==
    << [type |-> "function", name |-> "list_tables",
        properties |-> {"catalog", "schema"}, required |-> <<"catalog", "schema">>],
       [type |-> "function", name |-> "get_table_details",
        properties |-> {"catalog", "schema", "table"},
        required |-> <<"catalog", "schema", "table">>],
       [type |-> "function", name |-> "get_related_tables",
        properties |-> {"catalog", "schema", "table"},
        required |-> <<"catalog", "schema", "table">>] >>

-----------------------------------------------------------------------------
(* dbx_serving_client.py: DatabricksServingChatClient *)

\* The default of send_chat_with_tools' max_iterations parameter.
DefaultMaxIterations == 5

\* "申し訳ありませんが、処理が制限回数に達しました。"
LimitReachedText == <<"Sorry, the processing reached the iteration limit.">>

\* f"Error executing tool: {str(e)}"
ToolExceptionText(msg) == <<"Error executing tool: ">> \o msg

\* The tool_call_id of a message that has none.
NoId == "<None>"

\* A message of a conversation; a key the dict does not hold is NoId
\* (tool_call_id) or << >> (tool_calls).
Message(role, content) ==
    [role |-> role, content |-> content, tool_call_id |-> NoId, tool_calls |-> << >>]

\* The assistant message appended for a response that requests tools.
AssistantToolCallMessage(content, tcs) ==
    [role |-> "assistant", content |-> content, tool_call_id |-> NoId,
     tool_calls |-> [i \in 1..Len(tcs) |->
                       [id |-> tcs[i].id, type |-> tcs[i].type,
                        function |-> [name |-> tcs[i].name,
                                      arguments |-> tcs[i].arguments]]]]

\* The tool-role message appended for one executed tool call.
ToolMessage(tool_call, tool_result) ==
    [role |-> "tool", content |-> tool_result, tool_call_id |-> tool_call.id,
     tool_calls |-> << >>]

\* Mutant: text that is no JSON is read as an empty object.
json_loads_Lenient(text) ==
    CASE text.form = "array" -> Return([kind |-> "list", d |-> text.d], << >>)
      [] OTHER -> Return([kind |-> "dict", d |-> text.d], << >>)

\* json.loads on the arguments text of a tool call.  The text is held by its
\* form: a JSON object (d its items), another JSON value, or text that is no
\* JSON, on which json.loads raises JSONDecodeError.
json_loads(text) ==
    CASE text.form = "object" -> Return([kind |-> "dict", d |-> text.d], << >>)
      [] text.form = "array" -> Return([kind |-> "list", d |-> text.d], << >>)
      [] OTHER -> Raise("JSONDecodeError", <<"Expecting value">>, << >>)

\* One request to chat.completions.create.
PlainRequest(msgs) == [messages |-> msgs, tools |-> << >>, tool_choice |-> "unset"]

ToolRequest(msgs) ==
    [messages |-> msgs, tools |-> get_function_definitions, tool_choice |-> "auto"]

\* Mutant: the loop submits the caller's messages instead of the working copy.
LoopRequest_CallerMessages(msgs) == ToolRequest(SubSeq(msgs, 1, Len(messages)))

\* The request send_chat_with_tools issues in a loop iteration.
LoopRequest(msgs) == ToolRequest(msgs)

\* Mutant: the fallback attaches the tool declarations.
SendChatRequest_WithTools(msgs) == ToolRequest(msgs)

\* The request send_chat issues.
SendChatRequest(msgs) == PlainRequest(msgs)

\* The branch at `if message.tool_calls:`: None and [] are both falsy.
HasToolCalls(message) == message.tool_calls # << >>

\* Mutant: the content is returned as it is, None included.
TextAnswer_NoDefault(message) == message.content

\* `return message.content or ""`
TextAnswer(message) == OrEmpty(message.content)

\* The content of the tool message for one tool call, from the outcome r of
\* execute_tool: its text, or the text of an exception it lets through.
ToolResult(r) == IF r.raised THEN ToolExceptionText(r.msg) ELSE r.value

\* Mutant: the loop runs one iteration more than the budget.
HasIteration_OffByOne(n, budget) == n <= budget

\* Mutant: the loop body runs once before the budget is tested.
HasIteration_AtLeastOnce(n, budget) == n < budget \/ n = 0

\* Whether the for loop has an iteration left.
HasIteration(n, budget) == n < budget

-----------------------------------------------------------------------------
(* Inputs: what the caller, the model and the SDK may supply *)

\* Most tool-call requests one model response carries.
MaxToolCallsPerResponse == 2

\* Most tool-call requests the model issues in one run.
MaxToolCallsPerRun == 6

\* JSON texts of tool-call arguments.
JsonObject(catalog, schema, table) ==
    [form |-> "object",
     d |-> [k \in ArgKeys |-> CASE k = "catalog" -> catalog
                                [] k = "schema" -> schema
                                [] OTHER -> table]]

JsonArray == [form |-> "array", d |-> [k \in ArgKeys |-> Absent]]

JsonMalformed == [form |-> "malformed", d |-> [k \in ArgKeys |-> Absent]]

\* A tool-call request of a model response.
ToolCall(id, name, arguments) ==
    [id |-> id, type |-> "function", name |-> name, arguments |-> arguments]

\* The requests the model may issue in a run of the tool loop.
LoopRequests ==
    { ToolCall("call_a", "list_tables", JsonObject(<<"demo">>, <<"sales">>, Absent)),
      ToolCall("call_b", "get_table_details", JsonObject(<<"demo">>, <<"sales">>, Absent)),
      ToolCall("call_c", "list_tables", JsonMalformed) }

\* Sequences of 1..n items of S.
SeqsUpTo(S, n) == UNION {[1..k -> S] : k \in 1..n}

\* The content of a model message.
ModelContents == {None, << >>, <<"answer">>}

\* The caller's conversations.
Conversations ==
    { <<Message("system", <<"You are a helpful assistant.">>),
        Message("user", <<"list tables in demo.sales">>)>> }

\* The iteration budgets a caller passes.
IterationBudgets == 0..DefaultMaxIterations

\* Answers of the SDK.
OrdersTable ==
    [name |-> <<"orders">>, table_type |-> <<"MANAGED">>, comment |-> <<"order records">>]

ItemsTable == [name |-> <<"items">>, table_type |-> None, comment |-> None]

ListOk(tables) == [raises |-> FALSE, msg |-> << >>, tables |-> tables]

ListFails == [raises |-> TRUE, msg |-> <<"PERMISSION_DENIED">>, tables |-> << >>]

OrdersInfo(columns_none, columns) ==
    [name |-> <<"orders">>, catalog_name |-> <<"demo">>, schema_name |-> <<"sales">>,
     table_type |-> <<"MANAGED">>, comment |-> <<"order records">>,
     columns_none |-> columns_none, columns |-> columns]

IdColumn == [name |-> <<"id">>, type_name |-> <<"LONG">>, comment |-> None]

GetOk(info) == [raises |-> FALSE, msg |-> << >>, info |-> info]

GetFails == [raises |-> TRUE, msg |-> <<"TABLE_DOES_NOT_EXIST">>,
             info |-> OrdersInfo(TRUE, << >>)]

SqlOk(columns_none, columns, data_none, data_array) ==
    [raises |-> FALSE, msg |-> << >>, columns_none |-> columns_none, columns |-> columns,
     data_none |-> data_none, data_array |-> data_array]

SqlFails == [raises |-> TRUE, msg |-> <<"WAREHOUSE_STOPPED">>, columns_none |-> TRUE,
             columns |-> << >>, data_none |-> TRUE, data_array |-> << >>]

FourColumns == << <<"c1">>, <<"c2">>, <<"c3">>, <<"c4">> >>

SqlEmpty == SqlOk(FALSE, FourColumns, TRUE, << >>)

Env(list, get, warehouse_id, sql1, sql2) ==
    [list |-> list, get |-> get, warehouse_id |-> warehouse_id, sql |-> <<sql1, sql2>>]

\* The worlds a run of the tool loop is checked in.
LoopEnvs ==
    { Env(ListOk(<<OrdersTable>>), GetOk(OrdersInfo(FALSE, <<IdColumn>>)), <<"wh1">>,
          SqlEmpty, SqlEmpty),
      Env(ListFails, GetFails, None, SqlFails, SqlFails) }

\* What chat.completions.create answers: it raises, or yields a response
\* whose choices are empty, or one whose first choice holds a message.
ModelOutcome(raises, choices_empty, content, tcs) ==
    [raises |-> raises, choices_empty |-> choices_empty, content |-> content,
     tool_calls |-> tcs]

ModelOutcomes(lists) ==
    { ModelOutcome(TRUE, FALSE, None, << >>), ModelOutcome(FALSE, TRUE, None, << >>) }
    \cup { ModelOutcome(FALSE, FALSE, c, << >>) : c \in ModelContents }
    \cup { ModelOutcome(FALSE, FALSE, None, tcs) : tcs \in lists }

RECURSIVE TotalToolCalls(_)
\* The number of tool-call requests of the messages of `rs`.
TotalToolCalls(rs) ==
    IF rs = << >> THEN 0 ELSE Len(Head(rs).tool_calls) + TotalToolCalls(Tail(rs))

\* The run's return value or exception.
NoResult == [kind |-> "none", value |-> None, type |-> ""]

Returned(v) == [kind |-> "return", value |-> v, type |-> ""]

Raised(type, msg) == [kind |-> "raise", value |-> msg, type |-> type]

NoExec == [called |-> FALSE, tool_name |-> "", arguments |-> [kind |-> "", d |-> [k \in ArgKeys |-> Absent]],
           text |-> << >>, ops |-> << >>, raised |-> FALSE]

Executed(tool_name, arguments, r) ==
    [called |-> TRUE, tool_name |-> tool_name, arguments |-> arguments,
     text |-> r.value, ops |-> r.ops, raised |-> r.raised]

-----------------------------------------------------------------------------
(* A run of send_chat_with_tools *)

\* What started a script run, and the exception call_serving_chat raised in it.
Event(kind, raised, type, msg) == [kind |-> kind, raised |-> raised, type |-> type, msg |-> msg]

NoEvent == Event("none", FALSE, "", << >>)

\* A function or method called on its own: its name, its inputs, its outcome.
Call(op, input, outcome) == [op |-> op, input |-> input, outcome |-> outcome]

NoCall == Call("none", << >>, Return(None, << >>))

\* The Streamlit session before any script run.
AppFresh ==
    /\ app_pc = "fresh"
    /\ session_messages = << >>
    /\ system_prompt = <<"You are a helpful assistant.">>
    /\ prompt = None
    /\ turn_start = << >>
    /\ serving_calls = 0
    /\ last_event = NoEvent

\* A constructed client on which no call has been made.
LoopIdle ==
    /\ pc = "idle"
    /\ max_iterations = DefaultMaxIterations
    /\ messages = << >>
    /\ working_messages = << >>
    /\ iteration = 0
    /\ tool_calls = << >>
    /\ tc_index = 0
    /\ calls = << >>
    /\ responses = << >>
    /\ result = NoResult
    /\ mdOps = << >>
    /\ exec = NoExec

\* DatabricksServingChatClient.__init__: with or without a UnityCatalogClient.
Init ==
    /\ LoopIdle
    /\ uc_client \in BOOLEAN
    /\ world \in LoopEnvs
    /\ AppFresh
    /\ last_call = NoCall

\* Mutant: the working list is the caller's list itself, not a copy.
CallerList_Aliased(caller, working) == working

\* `working_messages = messages.copy()`: the working list is a list of its
\* own, so the caller's list is what it was, whatever the run has appended
\* to the working list.
CallerList(caller, working) == caller

\* send_chat_with_tools is called: the fallback test and the working copy.
Start ==
    /\ pc = "idle"
    /\ \E msgs \in Conversations, n \in IterationBudgets :
          /\ messages' = msgs
          /\ max_iterations' = n
          /\ IF uc_client
             THEN pc' = "loop" /\ working_messages' = msgs
             ELSE pc' = "plain" /\ working_messages' = working_messages
    /\ UNCHANGED <<uc_client, iteration, tool_calls, tc_index, calls, responses, result,
                   mdOps, exec, world>>
    /\ UNCHANGED appVars
    /\ UNCHANGED callVars

\* response.choices[0].message
ResponseMessage(o) == [content |-> o.content, tool_calls |-> o.tool_calls]

\* The state after the model's answer `o` to a request of the loop.
AfterResponse(o) ==
    IF o.raises
    THEN /\ pc' = "raised" /\ result' = Raised("APIError", <<"request failed">>)
         /\ UNCHANGED <<working_messages, tool_calls, tc_index, responses>>
    ELSE IF o.choices_empty
    THEN /\ pc' = "raised" /\ result' = Raised("IndexError", <<"list index out of range">>)
         /\ UNCHANGED <<working_messages, tool_calls, tc_index, responses>>
    ELSE IF HasToolCalls(o)
    THEN /\ working_messages' =
               Append(working_messages, AssistantToolCallMessage(o.content, o.tool_calls))
         /\ tool_calls' = o.tool_calls
         /\ tc_index' = 0
         /\ responses' = Append(responses, ResponseMessage(o))
         /\ pc' = "exec_tools"
         /\ result' = result
    ELSE /\ pc' = "returned" /\ result' = Returned(TextAnswer(o))
         /\ responses' = Append(responses, ResponseMessage(o))
         /\ UNCHANGED <<working_messages, tool_calls, tc_index>>

\* One iteration of the for loop up to the branch on message.tool_calls:
\* the model is called with the working conversation and the tools.
CallModel ==
    /\ pc = "loop"
    /\ HasIteration(iteration, max_iterations)
    /\ iteration' = iteration + 1
    /\ calls' = Append(calls, LoopRequest(working_messages))
    /\ \E o \in ModelOutcomes({tcs \in SeqsUpTo(LoopRequests, MaxToolCallsPerResponse) :
                                  TotalToolCalls(responses) + Len(tcs) <= MaxToolCallsPerRun}) :
          AfterResponse(o)
    /\ messages' = CallerList(messages, working_messages')
    /\ UNCHANGED <<uc_client, max_iterations, mdOps, exec, world>>
    /\ UNCHANGED appVars
    /\ UNCHANGED callVars

\* Mutant: the inner loop stops after the first tool call of a response.
AfterToolCall_FirstOnly(k, n) == "loop"

\* Mutant: the run ends once the tool calls of a response are executed.
AfterToolCall_Return(k, n) == IF k = n THEN "returned" ELSE "exec_tools"

\* The position after tool call number k of n has been executed.
AfterToolCall(k, n) == IF k = n THEN "loop" ELSE "exec_tools"

\* One pass of the inner for loop: the next tool call of the response is
\* parsed and executed and its tool message appended.
ExecTool ==
    /\ pc = "exec_tools"
    /\ LET tool_call == tool_calls[tc_index + 1]
           parsed == json_loads(tool_call.arguments)
       IN IF parsed.raised
          THEN /\ pc' = "raised"
               /\ result' = Raised(parsed.type, parsed.msg)
               /\ UNCHANGED <<working_messages, tc_index, mdOps, exec>>
          ELSE LET r == execute_tool(tool_call.name, parsed.value, world)
               IN /\ working_messages' =
                        Append(working_messages, ToolMessage(tool_call, ToolResult(r)))
                  /\ tc_index' = tc_index + 1
                  /\ mdOps' = mdOps \o r.ops
                  /\ exec' = Executed(tool_call.name, parsed.value, r)
                  /\ pc' = AfterToolCall(tc_index + 1, Len(tool_calls))
                  /\ result' = result
    /\ messages' = CallerList(messages, working_messages')
    /\ UNCHANGED <<uc_client, max_iterations, iteration, tool_calls, calls,
                   responses, world>>
    /\ UNCHANGED appVars
    /\ UNCHANGED callVars

\* The for loop is exhausted: the fixed text is returned.
LimitReached ==
    /\ pc = "loop"
    /\ ~HasIteration(iteration, max_iterations)
    /\ pc' = "returned"
    /\ result' = Returned(LimitReachedText)
    /\ UNCHANGED <<uc_client, max_iterations, messages, working_messages, iteration,
                   tool_calls, tc_index, calls, responses, mdOps, exec, world>>
    /\ UNCHANGED appVars
    /\ UNCHANGED callVars

\* _extract_text: resp.choices[0].message.content, any failure as ValueError.
extract_text(o) ==
    IF o.choices_empty
    THEN Raise("ValueError", <<"Unexpected response format">>, << >>)
    ELSE Return(o.content, << >>)

\* The fallback: send_chat, one plain request, and _extract_text.
SendChat ==
    /\ pc = "plain"
    /\ calls' = Append(calls, SendChatRequest(messages))
    /\ \E o \in ModelOutcomes({}) :
          IF o.raises
          THEN pc' = "raised" /\ result' = Raised("APIError", <<"request failed">>)
          ELSE LET r == extract_text(o)
               IN IF r.raised
                  THEN pc' = "raised" /\ result' = Raised(r.type, r.msg)
                  ELSE pc' = "returned" /\ result' = Returned(r.value)
    /\ UNCHANGED <<uc_client, max_iterations, messages, working_messages, iteration,
                   tool_calls, tc_index, responses, mdOps, exec, world>>
    /\ UNCHANGED appVars
    /\ UNCHANGED callVars

Next == Start \/ CallModel \/ ExecTool \/ LimitReached \/ SendChat

Spec == Init /\ [][Next]_vars

\* A constructed client, with the SDK answering.
InitFair == Init /\ ~world.list.raises

\* The run is sequential code: a step that can be taken is taken, every
\* model call and every tool execution returning or raising.
FairSpec == InitFair /\ [][Next]_vars /\ WF_vars(Next)

-----------------------------------------------------------------------------
(* One tool call, over all tool names, arguments and answers of the SDK *)

\* The names get_function_definitions declares.
DeclaredNames == {get_function_definitions[i].name : i \in 1..Len(get_function_definitions)}

\* Tool names a model may request: the declared ones and others.
ToolNames == DeclaredNames \cup DispatchedNames \cup {"execute_sql", "List_Tables"}

\* Values of an argument: not given, null, "" and a name.
ArgValues == {Absent, None, << >>, <<"demo">>}

\* JSON texts of arguments: every object over the three parameters, a JSON
\* array, and text that is no JSON.
JsonTexts ==
    { JsonObject(c, sc, t) : c \in ArgValues, sc \in ArgValues, t \in ArgValues }
    \cup {JsonArray, JsonMalformed}

\* Rows of the referenced_by query (source_table, constraint_name,
\* source_column, target_column): a composite key of two columns.
ReferencedByRows ==
    << << <<"items">>, <<"items_orders_fk">>, <<"order_id">>, <<"id">> >>,
       << <<"items">>, <<"items_orders_fk">>, <<"order_line">>, <<"line">> >> >>

\* Rows of the references query (constraint_name, source_column,
\* target_table, target_column).
ReferencesRows ==
    << << <<"orders_customer_fk">>, <<"customer_id">>, <<"customers">>, <<"id">> >> >>

ToolEnvs ==
    { Env(l, g, w, s1, s2) :
        l \in {ListFails, ListOk(<< >>), ListOk(<<OrdersTable, ItemsTable>>)},
        g \in {GetFails, GetOk(OrdersInfo(TRUE, << >>)), GetOk(OrdersInfo(FALSE, <<IdColumn>>))},
        w \in {None, <<"wh1">>},
        s1 \in {SqlFails, SqlEmpty, SqlOk(FALSE, FourColumns, FALSE, ReferencedByRows)},
        s2 \in {SqlFails, SqlEmpty, SqlOk(FALSE, FourColumns, FALSE, ReferencesRows)} }

\* A run whose single permitted model call has answered with one tool call.
InitTool ==
    /\ \E name \in ToolNames, text \in JsonTexts :
          LET tcs == <<ToolCall("call_a", name, text)>>
              msgs == CHOOSE c \in Conversations : TRUE
          IN /\ tool_calls = tcs
             /\ messages = msgs
             /\ working_messages = Append(msgs, AssistantToolCallMessage(None, tcs))
             /\ calls = <<LoopRequest(msgs)>>
             /\ responses = <<[content |-> None, tool_calls |-> tcs]>>
    /\ pc = "exec_tools"
    /\ uc_client = TRUE
    /\ max_iterations = 1
    /\ iteration = 1
    /\ tc_index = 0
    /\ result = NoResult
    /\ mdOps = << >>
    /\ exec = NoExec
    /\ world \in ToolEnvs
    /\ AppFresh
    /\ last_call = NoCall

NextTool == ExecTool \/ LimitReached

SpecTool == InitTool /\ [][NextTool]_vars

-----------------------------------------------------------------------------
(* Properties of send_chat_with_tools *)

\* The run is in the tool loop or has left it.
InToolRun == uc_client /\ pc \in {"loop", "exec_tools", "returned", "raised"}

\* The messages a run has appended to its working copy.
Appended(msgs) == SubSeq(msgs, Len(messages) + 1, Len(msgs))

\* Role and tool_call_id of each message of msgs.
Shape(msgs) == [i \in 1..Len(msgs) |-> <<msgs[i].role, msgs[i].tool_call_id>>]

\* The shape one response adds when `done` of its requests are executed:
\* nothing for a text answer, else the assistant message and one tool
\* message per executed request, in the order of the requests.
RoundShape(r, done) ==
    IF r.tool_calls = << >> THEN << >>
    ELSE << <<"assistant", NoId>> >> \o [j \in 1..done |-> <<"tool", r.tool_calls[j].id>>]

\* The index of the last response that requested tools, 0 if none did.
LastToolRound ==
    IF \E i \in 1..Len(responses) : HasToolCalls(responses[i])
    THEN CHOOSE i \in 1..Len(responses) :
            /\ HasToolCalls(responses[i])
            /\ \A j \in (i + 1)..Len(responses) : ~HasToolCalls(responses[j])
    ELSE 0

\* The shape the first k responses add, each with all its requests executed
\* but the one in progress (the last that requested tools), of which
\* tc_index are.
ExpectedShape(k, inProgress) ==
    Concat([i \in 1..k |->
              RoundShape(responses[i],
                         IF inProgress /\ i = LastToolRound THEN tc_index
                         ELSE Len(responses[i].tool_calls))])

\* C1: every response that requests tools r1..rn adds to the working
\* conversation one assistant message followed by exactly one tool message
\* per request, carrying that request's id, in the order r1..rn; while the
\* requests are executed the tool messages present are those of the requests
\* already executed; and every model call is issued with all tool messages
\* of all earlier responses in the conversation it submits.
C1_ToolMessagePerRequest ==
    InToolRun =>
        /\ SubSeq(working_messages, 1, Len(messages)) = messages
        /\ Shape(Appended(working_messages)) = ExpectedShape(Len(responses), TRUE)
        /\ pc \in {"loop", "returned"} => tc_index = Len(tool_calls)
        /\ \A k \in 1..Len(calls) :
              Shape(Appended(calls[k].messages)) = ExpectedShape(k - 1, FALSE)

\* C1 witness: a second model call has been issued after a response with two
\* requests of different ids, both executed.
C1_Witness ==
    /\ InToolRun
    /\ Len(calls) >= 2
    /\ Len(responses[1].tool_calls) = 2
    /\ responses[1].tool_calls[1].id # responses[1].tool_calls[2].id
    /\ Shape(Appended(calls[2].messages)) =
          << <<"assistant", NoId>>, <<"tool", responses[1].tool_calls[1].id>>,
             <<"tool", responses[1].tool_calls[2].id>> >>

\* Every response received so far requested tools.
AllRequestedTools == \A i \in 1..Len(responses) : HasToolCalls(responses[i])

\* C2: with the default budget of 5, a run issues at most 5 model calls; a
\* run in which every response requested tools and whose fifth round of tool
\* calls is complete has not raised, and when it has returned, it returned
\* the fixed text after exactly 5 model calls.
C2_IterationLimit ==
    (InToolRun /\ max_iterations = DefaultMaxIterations) =>
        /\ Len(calls) <= DefaultMaxIterations
        /\ (AllRequestedTools /\ Len(responses) = DefaultMaxIterations /\ tc_index = Len(tool_calls)) =>
              pc \in {"loop", "returned"}
        /\ (AllRequestedTools /\ pc = "returned") =>
              /\ result = Returned(LimitReachedText)
              /\ Len(calls) = DefaultMaxIterations
              /\ Len(responses) = DefaultMaxIterations

\* C2 witness: the fixed text returned after five model calls that all
\* requested tools.
C2_Witness ==
    /\ InToolRun /\ max_iterations = DefaultMaxIterations
    /\ pc = "returned" /\ AllRequestedTools
    /\ Len(calls) = DefaultMaxIterations
    /\ result = Returned(LimitReachedText)

\* The last response the loop received.
LastResponse == responses[Len(responses)]

\* C3: once a response without tool-call requests is received, the run has
\* returned that response's content, "" when the content is None, and the
\* response is the answer to the last model call; from then on no tool is
\* executed, no model call is issued and nothing else changes.
C3_TextEndsRun ==
    /\ [](InToolRun /\ responses # << >> /\ ~HasToolCalls(LastResponse) =>
            /\ pc = "returned"
            /\ result.kind = "return"
            /\ result.value # None
            /\ result.value = (IF LastResponse.content = None
                               THEN << >> ELSE LastResponse.content)
            /\ Len(calls) = Len(responses))
    /\ [][(InToolRun /\ responses # << >> /\ ~HasToolCalls(LastResponse)) =>
             UNCHANGED vars]_vars

\* C3 witness: a text answer with content None, after a round of tools.
C3_Witness ==
    /\ InToolRun /\ Len(responses) = 2
    /\ ~HasToolCalls(LastResponse) /\ LastResponse.content = None
    /\ result = Returned(<< >>)

\* C4: without a tool registry the run issues at most one model call, on
\* the caller's messages, with no tool declarations and no tool-choice mode;
\* it executes no tool and starts no loop iteration, whatever the budget; and
\* when it has ended it has issued exactly one call.
C4_PlainFallback ==
    ~uc_client =>
        /\ Len(calls) <= 1
        /\ \A k \in 1..Len(calls) :
              /\ calls[k].tools = << >>
              /\ calls[k].tool_choice = "unset"
              /\ calls[k].messages = messages
        /\ pc \in {"returned", "raised"} => Len(calls) = 1
        /\ iteration = 0 /\ responses = << >>
        /\ ~exec.called /\ mdOps = << >>
        /\ working_messages = << >>

\* C4 witness: a fallback run with budget 0 that returned after its call.
C4_Witness ==
    ~uc_client /\ pc = "returned" /\ max_iterations = 0 /\ Len(calls) = 1

-----------------------------------------------------------------------------
(* Properties of execute_tool *)

\* The Metadata Client operation that the last execute_tool call invoked
\* failed: the SDK call raised, or no WAREHOUSE_ID is set.
ListFailed == "w.tables.list" \in Range(exec.ops) /\ world.list.raises

GetFailed == "w.tables.get" \in Range(exec.ops) /\ world.get.raises

SqlFailed ==
    /\ "_execute_sql" \in Range(exec.ops)
    /\ \/ ~Truthy(world.warehouse_id)
       \/ world.sql[1].raises
       \/ world.sql[2].raises

\* The message of that failure.
FailureMsg ==
    IF ListFailed THEN world.list.msg
    ELSE IF GetFailed THEN world.get.msg
    ELSE IF ~Truthy(world.warehouse_id) THEN WarehouseNotSetMsg
    ELSE IF world.sql[1].raises THEN world.sql[1].msg
    ELSE world.sql[2].msg

\* C7: execute_tool never raises, whatever the tool name, the arguments and
\* the SDK's answers; when the Metadata Client operation it invoked failed,
\* it returns the error text, which contains the failure's message; and the
\* loop goes on: the tool message of the call holds that text.
C7_ExecuteToolNeverRaises ==
    exec.called =>
        /\ ~exec.raised
        /\ pc # "raised"
        /\ working_messages[Len(working_messages)] = ToolMessage(tool_calls[tc_index], exec.text)
        /\ (ListFailed \/ GetFailed \/ SqlFailed) =>
              /\ SubSeq(exec.text, 1, 1) = <<"Error(ja): ">>
              /\ Contains(exec.text, FailureMsg)
        /\ (exec.arguments.kind # "dict" /\ exec.tool_name \in DeclaredNames) =>
              exec.text = UnexpectedErrorText(NoGetAttributeMsg)

\* C7 witness: get_related_tables failed on its second statement and the
\* run went on to its next step.
C7_Witness ==
    /\ exec.called /\ exec.tool_name = "get_related_tables"
    /\ SqlFailed /\ Truthy(world.warehouse_id) /\ ~world.sql[1].raises
    /\ Contains(exec.text, world.sql[2].msg)
    /\ pc = "loop"

\* The definition of the tool called last requires a parameter that the
\* arguments object does not hold.
RequiredArgumentAbsent ==
    /\ exec.called
    /\ exec.arguments.kind = "dict"
    /\ \E i \in 1..Len(get_function_definitions) :
          /\ get_function_definitions[i].name = exec.tool_name
          /\ \E k \in Range(get_function_definitions[i].required) :
                exec.arguments.d[k] = Absent

\* C8: when a parameter that the tool's definition requires is absent from
\* the arguments, execute_tool returns the tool's missing-parameter text,
\* does not raise and invokes no Metadata Client or SDK operation.
C8_MissingArgument ==
    RequiredArgumentAbsent =>
        /\ exec.text = (IF exec.tool_name = "list_tables"
                        THEN MissingCatalogSchemaText
                        ELSE MissingCatalogSchemaTableText)
        /\ ~exec.raised
        /\ exec.ops = << >>
        /\ mdOps = << >>

\* C8 witness: get_related_tables called with catalog and schema but no table.
C8_Witness ==
    /\ RequiredArgumentAbsent
    /\ exec.tool_name = "get_related_tables"
    /\ exec.arguments.d["catalog"] = <<"demo">>
    /\ exec.arguments.d["schema"] = <<"demo">>
    /\ exec.arguments.d["table"] = Absent
    /\ exec.text = MissingCatalogSchemaTableText

\* C9: the declared tool names are unique and are list_tables,
\* get_table_details and get_related_tables; a call under any other name
\* returns the unknown-tool text and invokes no operation, and a call under a
\* declared name never returns the unknown-tool text.
C9_ClosedDispatch ==
    /\ Cardinality(DeclaredNames) = Len(get_function_definitions)
    /\ DeclaredNames = {"list_tables", "get_table_details", "get_related_tables"}
    /\ exec.called =>
          /\ exec.tool_name \notin DeclaredNames =>
                /\ exec.text = UnknownToolText(exec.tool_name)
                /\ ~exec.raised
                /\ exec.ops = << >>
                /\ mdOps = << >>
          /\ exec.tool_name \in DeclaredNames =>
                exec.text # UnknownToolText(exec.tool_name)

\* C9 witness: a call of the undeclared name execute_sql.
C9_Witness ==
    /\ exec.called /\ exec.tool_name = "execute_sql"
    /\ exec.text = UnknownToolText("execute_sql")
    /\ pc = "returned"

-----------------------------------------------------------------------------
(* The variants of the loop *)

\* The contents of the tool messages of msgs, concatenated in order.
ToolOutputs(msgs) ==
    Concat([i \in 1..Len(msgs) |->
              IF msgs[i].role = "tool" THEN msgs[i].content ELSE << >>])

\* C10 as claimed: a run that returns after its first round of tool
\* execution without a second model call (the one configuration that does so
\* is a budget of 1) returns the concatenated tool outputs.
C10_SingleShotClaimed ==
    (InToolRun /\ pc = "returned" /\ Len(responses) = 1 /\ HasToolCalls(responses[1])) =>
        /\ Len(calls) = 1
        /\ result = Returned(ToolOutputs(working_messages))

\* C10 amended: the loop has one behaviour, the multi-turn one.  A run that
\* returns after tool execution returns either the text of a later model
\* response, or, with its budget used up by responses that all requested
\* tools, the fixed text; it never returns the tool outputs.  With budget
\* left, the step after a round of tool execution is a model call that
\* submits the working conversation, tool messages included.
C10_MultiTurnOnly ==
    /\ []((InToolRun /\ pc = "returned" /\ LastToolRound > 0) =>
            /\ result.value # ToolOutputs(working_messages)
            /\ \/ /\ AllRequestedTools
                  /\ Len(calls) = max_iterations
                  /\ result = Returned(LimitReachedText)
               \/ /\ ~HasToolCalls(LastResponse)
                  /\ Len(calls) >= 2
                  /\ result = Returned(OrEmpty(LastResponse.content)))
    /\ [][(InToolRun /\ pc = "loop" /\ iteration > 0 /\ iteration < max_iterations) =>
             /\ Len(calls') = Len(calls) + 1
             /\ calls'[Len(calls')].messages = working_messages
             /\ ToolOutputs(working_messages) # << >>]_vars

\* C10 witness: after a round of tools a second model call answered with
\* text, and that text is the reply.
C10_Witness ==
    /\ InToolRun /\ pc = "returned"
    /\ Len(calls) = 2 /\ HasToolCalls(responses[1])
    /\ result = Returned(<<"answer">>)

-----------------------------------------------------------------------------
(* app.py: the Streamlit script *)

\* ENDPOINT_NAME
ENDPOINT_NAME == <<"kikkawa-samplechat-model">>

\* The message call_serving_chat returns when ENDPOINT_NAME is empty.
EndpointNotSetText == <<"CHAT_ENDPOINT is not set">>

\* A place of a response payload that the probing may find missing (the
\* subscript raises) or holding a value that is no string.
Missing == <<"<missing>">>

NonString == <<"<non-string>">>

\* json.dumps(obj, ensure_ascii=False, indent=2)
JsonDump(obj) == <<"json.dumps of ">> \o obj.raw

\* Mutant: the flat keys are tried in another order.
FlatKeys_Reordered == <<"text", "output_text", "generated_text", "response">>

\* A response payload, by what the probes of extract_text_from_response find:
\*   is_str      the payload is a string, str
\*   message     obj["choices"][0]["message"]["content"]
\*   choice_text obj["choices"][0]["text"]
\*   parts_ok    obj["candidates"][0]["content"]["parts"] is there and the
\*               join of its text fragments succeeds, giving parts
\*   flat        the values of output_text, generated_text, text, response
\*   raw         the payload's text
\* A value is a string, None (JSON null), NonString, or Missing.
FlatKeys == <<"output_text", "generated_text", "text", "response">>

\* Mutant: the loop returns the value of the first flat key that is there,
\* string or not.
FirstFlat_AnyValue(obj, keys) ==
    IF \E i \in 1..Len(keys) : obj.flat[keys[i]] # Missing
    THEN LET first == CHOOSE i \in 1..Len(keys) :
                          /\ obj.flat[keys[i]] # Missing
                          /\ \A j \in 1..(i - 1) : obj.flat[keys[j]] = Missing
         IN obj.flat[keys[first]]
    ELSE JsonDump(obj)

RECURSIVE FirstFlat(_, _)
\* The loop over the flat keys: the first key whose value is a string.
FirstFlat(obj, keys) ==
    IF keys = << >> THEN JsonDump(obj)
    ELSE LET v == obj.flat[Head(keys)]
         IN IF v \notin {Missing, None, NonString} THEN v
            ELSE FirstFlat(obj, Tail(keys))

\* extract_text_from_response
extract_text_from_response(obj) ==
    IF obj.is_str THEN obj.str
    ELSE IF obj.message # Missing THEN obj.message
    ELSE IF obj.choice_text # Missing THEN obj.choice_text
    ELSE IF obj.parts_ok THEN Concat(obj.parts)
    ELSE FirstFlat(obj, FlatKeys)

\* f"Error: {e}"
ErrorReply(msg) == <<"Error: ">> \o msg

\* Mutant: only RuntimeError is caught.
Caught_RuntimeErrorOnly(type) == type = "RuntimeError"

\* `except Exception`: whether the handler's except clause catches an
\* exception of this type.
Caught(type) == TRUE

\* What a call of call_serving_chat meets: an exception (of _get_auth_headers,
\* requests.post or r.json) or a payload.
ServingRaises(type, msg) ==
    [raises |-> TRUE, type |-> type, msg |-> msg, payload_none |-> TRUE]

\* call_serving_chat
call_serving_chat(outcome, payload) ==
    IF ~Truthy(ENDPOINT_NAME) THEN Return(EndpointNotSetText, << >>)
    ELSE IF outcome.raises THEN Raise(outcome.type, outcome.msg, << >>)
    ELSE Return(extract_text_from_response(payload), << >>)

\* Mutant: the system message is put in front of the history.
ReplaceSystem_Insert(msgs, sp) == <<Message("system", sp)>> \o msgs

\* `st.session_state.messages[0] = {"role": "system", "content": system_prompt}`
ReplaceSystem(msgs, sp) == [msgs EXCEPT ![1] = Message("system", sp)]

\* The script from its start to the chat input: the "Clear chat" button,
\* whose st.rerun() starts the script again with the button released, and
\* the chat state initialisation.  present: "messages" is in the session state.
ScriptTop(present, msgs, sp, clear) ==
    IF clear THEN ReplaceSystem(<<Message("system", sp)>>, sp)
    ELSE IF ~present THEN <<Message("system", sp)>>
    ELSE ReplaceSystem(msgs, sp)

\* Most user turns a session history holds.
MaxTurns == 2

\* Values of the "System prompt" text area.
SystemPrompts == {<<"You are a helpful assistant.">>, <<"Be brief.">>}

\* Texts the user submits.
Prompts == {<<"hello">>, <<"list tables in demo.sales">>}

Payload(is_str, str, message, choice_text, parts_ok, parts, flat, raw) ==
    [is_str |-> is_str, str |-> str, message |-> message, choice_text |-> choice_text,
     parts_ok |-> parts_ok, parts |-> parts, flat |-> flat, raw |-> raw]

\* A payload none of whose flat keys is there.
NoFlat == [k \in Range(FlatKeys) |-> Missing]

\* Payloads the serving endpoint answers a session with: a chat completion,
\* one whose content is null, a flat generated_text, and an error body.
AppPayloads ==
    { Payload(FALSE, << >>, <<"Hi!">>, Missing, FALSE, << >>, NoFlat, <<"chat completion">>),
      Payload(FALSE, << >>, None, Missing, FALSE, << >>, NoFlat, <<"chat completion, null">>),
      Payload(FALSE, << >>, Missing, Missing, FALSE, << >>,
              [NoFlat EXCEPT !["generated_text"] = <<"Hello">>], <<"generated_text">>),
      Payload(FALSE, << >>, Missing, Missing, FALSE, << >>, NoFlat,
              <<"{error_code: BAD_REQUEST}">>) }

ServingOk == [raises |-> FALSE, type |-> "", msg |-> << >>, payload_none |-> FALSE]

\* The exceptions a call of call_serving_chat meets.
ServingFailures ==
    { ServingRaises("RuntimeError", <<"Authentication headers are not available.">>),
      ServingRaises("ConnectionError", <<"connection refused">>),
      ServingRaises("JSONDecodeError", <<"Expecting value">>) }

\* A session in which the script has not run yet.
InitApp ==
    /\ AppFresh
    /\ last_call = NoCall
    /\ LoopIdle
    /\ uc_client = FALSE
    /\ world \in {CHOOSE e \in LoopEnvs : TRUE}

\* The page is opened: the first script run.
LoadPage ==
    /\ app_pc = "fresh"
    /\ session_messages' = ScriptTop(FALSE, session_messages, system_prompt, FALSE)
    /\ app_pc' = "ready"
    /\ prompt' = None
    /\ turn_start' = session_messages'
    /\ serving_calls' = 0
    /\ last_event' = Event("load", FALSE, "", << >>)
    /\ UNCHANGED system_prompt
    /\ UNCHANGED loopVars
    /\ UNCHANGED callVars

\* The user edits the system prompt: a script run with the new value.
ChangeSystemPrompt ==
    /\ app_pc = "ready"
    /\ \E sp \in SystemPrompts \ {system_prompt} :
          /\ system_prompt' = sp
          /\ session_messages' = ScriptTop(TRUE, session_messages, sp, FALSE)
    /\ prompt' = None
    /\ turn_start' = session_messages'
    /\ serving_calls' = 0
    /\ last_event' = Event("system_prompt", FALSE, "", << >>)
    /\ UNCHANGED app_pc
    /\ UNCHANGED loopVars
    /\ UNCHANGED callVars

\* The user clicks "Clear chat": the script run that resets the history and
\* the run that st.rerun() starts.
ClearChat ==
    /\ app_pc = "ready"
    /\ session_messages' = ScriptTop(TRUE, session_messages, system_prompt, TRUE)
    /\ prompt' = None
    /\ turn_start' = session_messages'
    /\ serving_calls' = 0
    /\ last_event' = Event("clear", FALSE, "", << >>)
    /\ UNCHANGED <<app_pc, system_prompt>>
    /\ UNCHANGED loopVars
    /\ UNCHANGED callVars

\* Mutant: a turn whose serving call raised appends no reply.
AfterTurn_NoReplyOnError(top, p, r) ==
    IF r.raised THEN Append(top, Message("user", p))
    ELSE Append(Append(top, Message("user", p)), Message("assistant", r.value))

\* The session after the chat input handler, from the history `top` the
\* handler was entered with, the prompt p and the outcome r of
\* call_serving_chat: the user message, then the reply or, for an exception,
\* the error text; an exception the except clause does not catch ends the
\* script run before the reply is appended.
AfterTurn(top, p, r) ==
    LET with_user == Append(top, Message("user", p))
    IN IF r.raised /\ ~Caught(r.type) THEN with_user
       ELSE Append(with_user,
                   Message("assistant", IF r.raised THEN ErrorReply(r.msg) ELSE r.value))

\* The user submits a prompt: a script run through the chat input handler.
SubmitPrompt ==
    /\ app_pc = "ready"
    /\ Len(session_messages) < 1 + 2 * MaxTurns
    /\ \E p \in Prompts,
          o \in ServingFailures \cup {ServingOk},
          payload \in AppPayloads :
          LET top == ScriptTop(TRUE, session_messages, system_prompt, FALSE)
              r == call_serving_chat(o, payload)
          IN /\ prompt' = p
             /\ turn_start' = top
             /\ session_messages' = AfterTurn(top, p, r)
             /\ app_pc' = IF r.raised /\ ~Caught(r.type) THEN "crashed" ELSE "ready"
             /\ last_event' = Event("prompt", r.raised, r.type, r.msg)
    /\ serving_calls' = 1
    /\ UNCHANGED system_prompt
    /\ UNCHANGED loopVars
    /\ UNCHANGED callVars

NextApp == LoadPage \/ ChangeSystemPrompt \/ ClearChat \/ SubmitPrompt

SpecApp == InitApp /\ [][NextApp]_vars

-----------------------------------------------------------------------------
(* Properties of the session history *)

\* The number of system-role messages of msgs.
SystemCount(msgs) == Cardinality({i \in 1..Len(msgs) : msgs[i].role = "system"})

\* C5: once the script has run, the session history holds exactly one
\* system message, at index 0 (the first), and it carries the current system
\* prompt; a change of the system prompt replaces that message and leaves the
\* length of the history and every other message as they were.
C5_OneSystemMessage ==
    /\ [](app_pc # "fresh" =>
            /\ Len(session_messages) >= 1
            /\ session_messages[1] = Message("system", system_prompt)
            /\ SystemCount(session_messages) = 1)
    /\ [][system_prompt' # system_prompt =>
             /\ Len(session_messages') = Len(session_messages)
             /\ session_messages'[1] = Message("system", system_prompt')
             /\ \A i \in 2..Len(session_messages) :
                   session_messages'[i] = session_messages[i]]_vars

\* C5 witness: the system prompt was changed in a history that holds a turn.
C5_Witness ==
    /\ last_event.kind = "system_prompt"
    /\ Len(session_messages) = 3
    /\ session_messages[1] = Message("system", <<"Be brief.">>)

\* C6: a turn in which call_serving_chat raised ends with the script run
\* complete and the history being what it was when the handler was entered,
\* then the user message, then one assistant message "Error: <message>".
C6_ExceptionBecomesReply ==
    (last_event.kind = "prompt" /\ last_event.raised) =>
        /\ app_pc = "ready"
        /\ session_messages =
              turn_start \o <<Message("user", prompt),
                              Message("assistant", <<"Error: ">> \o last_event.msg)>>

\* C6 witness: a transport failure in the second turn of a session.
C6_Witness ==
    /\ last_event.kind = "prompt" /\ last_event.raised
    /\ last_event.type = "ConnectionError"
    /\ Len(turn_start) = 3
    /\ Len(session_messages) = 5

-----------------------------------------------------------------------------
(* app.py: call_serving_chat and extract_text_from_response on their own *)

\* Values a probed place of a payload holds: nothing (the subscript raises),
\* JSON null, a value that is no string, or the given text.
ProbedValues(text) == {Missing, None, NonString, text}

\* Values of a flat key: not there, no string, or the given text.
FlatValues(text) == {Missing, NonString, text}

\* A payload that is a JSON string: every subscript on it raises.
StrPayload(text) == Payload(TRUE, text, Missing, Missing, FALSE, << >>, NoFlat, text)

\* The JSON objects a serving endpoint may answer with, by what the probes
\* find in them; the parts-based structure is absent, empty, or holds two
\* text fragments.
ObjectPayloads ==
    { Payload(FALSE, << >>, m, t, p.ok, p.parts,
              [k \in Range(FlatKeys) |->
                  CASE k = "output_text"    -> f1
                    [] k = "generated_text" -> f2
                    [] k = "text"           -> f3
                    [] k = "response"       -> f4],
              <<"{payload}">>) :
        m \in ProbedValues(<<"from message">>),
        t \in {Missing, <<"from choice text">>},
        p \in { [ok |-> FALSE, parts |-> << >>],
                [ok |-> TRUE, parts |-> << >>],
                [ok |-> TRUE, parts |-> << <<"part one, ">>, <<"part two">> >>] },
        f1 \in FlatValues(<<"from output_text">>),
        f2 \in FlatValues(<<"from generated_text">>),
        f3 \in FlatValues(<<"from text">>),
        f4 \in FlatValues(<<"from response">>) }

\* Every payload extract_text_from_response is called with.
ExtractPayloads == ObjectPayloads \cup {StrPayload(<<"plain text">>), StrPayload(<< >>)}

\* HTTP status codes of the serving endpoint's response.
StatusCodes == {200, 400, 503}

\* What requests.post and r.json() give call_serving_chat: a response with
\* a status code whose body is JSON (r.json() returns the payload) or is
\* not (r.json() raises).
HttpResponse(status, is_json) ==
    [raises |-> ~is_json,
     type |-> IF is_json THEN "" ELSE "JSONDecodeError",
     msg |-> IF is_json THEN << >> ELSE <<"Expecting value">>,
     payload_none |-> ~is_json,
     status |-> status]

\* The error body a serving endpoint sends with a failure: none of the
\* shapes applies to it.
ErrorPayload ==
    Payload(FALSE, << >>, Missing, Missing, FALSE, << >>, NoFlat,
            <<"{error_code: BAD_REQUEST, message: bad request}">>)

\* Payloads call_serving_chat is checked with.
ServingPayloads ==
    {ErrorPayload} \cup {obj \in ObjectPayloads : obj.flat = NoFlat}

\* No call has been made yet.
InitServing ==
    /\ AppFresh
    /\ last_call = NoCall
    /\ LoopIdle
    /\ uc_client = FALSE
    /\ world \in {CHOOSE e \in LoopEnvs : TRUE}

\* extract_text_from_response(obj)
Extract ==
    /\ last_call = NoCall
    /\ \E obj \in ExtractPayloads :
          last_call' = Call("extract_text_from_response", obj,
                            Return(extract_text_from_response(obj), << >>))
    /\ UNCHANGED loopVars
    /\ UNCHANGED appVars

\* call_serving_chat(messages, temperature, max_tokens)
CallServing ==
    /\ last_call = NoCall
    /\ \E status \in StatusCodes, is_json \in BOOLEAN, obj \in ServingPayloads :
          last_call' = Call("call_serving_chat",
                            [response |-> HttpResponse(status, is_json), payload |-> obj],
                            call_serving_chat(HttpResponse(status, is_json), obj))
    /\ UNCHANGED loopVars
    /\ UNCHANGED appVars

NextServing == Extract \/ CallServing

SpecServing == InitServing /\ [][NextServing]_vars

-----------------------------------------------------------------------------
(* Properties of response-shape extraction and of the serving call *)

\* Whether a value found in a payload is a string.
IsText(v) == v \notin {Missing, None, NonString}

\* A payload none of the supported shapes applies to: it is no string, has
\* no choices[0].message.content, no choices[0].text, no parts-based
\* content, and no flat key holding a string.
NoShapeMatches(obj) ==
    /\ ~obj.is_str
    /\ obj.message = Missing
    /\ obj.choice_text = Missing
    /\ ~obj.parts_ok
    /\ \A k \in {"output_text", "generated_text", "text", "response"} : ~IsText(obj.flat[k])

\* C11, as claimed: on a payload that matches none of the supported shapes,
\* extraction fails with a ResponseFormatError and returns no text.
C11_NoMatchFailsClaimed ==
    (last_call.op = "extract_text_from_response" /\ NoShapeMatches(last_call.input)) =>
        /\ last_call.outcome.raised
        /\ last_call.outcome.type = "ResponseFormatError"

\* C11, amended: on a payload that matches none of the supported shapes,
\* extract_text_from_response does not fail; it returns the JSON dump of the
\* raw payload as text.
C11_NoMatchDumps ==
    (last_call.op = "extract_text_from_response" /\ NoShapeMatches(last_call.input)) =>
        /\ ~last_call.outcome.raised
        /\ last_call.outcome.value = <<"json.dumps of ">> \o last_call.input.raw

\* C11 witness: a payload whose only flat key that is there holds no string
\* was extracted, giving the dump.
C11_Witness ==
    /\ last_call.op = "extract_text_from_response"
    /\ NoShapeMatches(last_call.input)
    /\ last_call.input.flat["output_text"] = NonString
    /\ last_call.input.flat["text"] = Missing
    /\ last_call.outcome.value = <<"json.dumps of ", "{payload}">>

\* C12: extraction returns what the first applicable shape holds, in the
\* order: the string itself, choices[0].message.content, choices[0].text,
\* the text fragments of the parts joined in order, then the first of
\* output_text, generated_text, text, response that holds a string.
C12_PriorityOrder ==
    last_call.op = "extract_text_from_response" =>
        LET obj == last_call.input
            v == last_call.outcome.value
            order == <<"output_text", "generated_text", "text", "response">>
            upper == ~obj.is_str /\ obj.message = Missing /\ obj.choice_text = Missing
                     /\ ~obj.parts_ok
        IN /\ ~last_call.outcome.raised
           /\ obj.is_str => v = obj.str
           /\ (~obj.is_str /\ obj.message # Missing) => v = obj.message
           /\ (~obj.is_str /\ obj.message = Missing /\ obj.choice_text # Missing) =>
                 v = obj.choice_text
           /\ (~obj.is_str /\ obj.message = Missing /\ obj.choice_text = Missing
               /\ obj.parts_ok) =>
                 /\ Len(obj.parts) = 0 => v = << >>
                 /\ Len(obj.parts) = 2 => v = obj.parts[1] \o obj.parts[2]
           /\ \A i \in 1..4 :
                 (upper /\ IsText(obj.flat[order[i]])
                  /\ \A j \in 1..(i - 1) : ~IsText(obj.flat[order[j]])) =>
                     v = obj.flat[order[i]]

\* C12 witness: a payload with choices[0].text, parts and two flat keys that
\* hold strings was extracted, giving the choice text.
C12_Witness ==
    /\ last_call.op = "extract_text_from_response"
    /\ last_call.input.message = Missing
    /\ last_call.input.choice_text = <<"from choice text">>
    /\ last_call.input.parts_ok /\ Len(last_call.input.parts) = 2
    /\ last_call.input.flat["generated_text"] = <<"from generated_text">>
    /\ last_call.input.flat["text"] = <<"from text">>
    /\ last_call.outcome.value = <<"from choice text">>

\* C13, as claimed: a response of the serving endpoint with a status outside
\* 2xx, or with an error body, makes call_serving_chat fail; its detail is
\* never returned as the reply text.
C13_ErrorSurfacesClaimed ==
    (/\ last_call.op = "call_serving_chat"
     /\ \/ last_call.input.response.status \notin 200..299
        \/ (~last_call.input.response.raises /\ last_call.input.payload = ErrorPayload)) =>
        last_call.outcome.raised

-----------------------------------------------------------------------------
(* unity_catalog_tools.py: the methods of UnityCatalogClient on their own *)

\* Most rows a constraint query answers with.
MaxRows == 3

\* Rows of the referenced_by query (source_table, constraint_name,
\* source_column, target_column): a composite key of items and a key of
\* returns.
ReferencedByRowSet ==
    { << <<"items">>, <<"items_orders_fk">>, <<"order_id">>, <<"id">> >>,
      << <<"items">>, <<"items_orders_fk">>, <<"order_line">>, <<"line">> >>,
      << <<"returns">>, <<"returns_orders_fk">>, <<"order_id">>, <<"id">> >> }

\* Rows of the references query (constraint_name, source_column,
\* target_table, target_column).
ReferencesRowSet ==
    { << <<"orders_customer_fk">>, <<"customer_id">>, <<"customers">>, <<"id">> >>,
      << <<"orders_customer_fk">>, <<"region">>, <<"customers">>, <<"region">> >>,
      << <<"orders_store_fk">>, <<"store_id">>, <<"stores">>, <<"id">> >> }

\* A row of three values, which the unpacking of a row rejects.
ShortRow == << <<"items">>, <<"items_orders_fk">>, <<"order_id">> >>

\* What execute_statement answers a constraint query whose rows are drawn
\* from rowSet: a failure, a response without row data (None, or an empty
\* list), rows, or a row of the wrong width.
QueryOutcomes(rowSet) ==
    { SqlFails, SqlEmpty, SqlOk(FALSE, FourColumns, FALSE, << >>),
      SqlOk(FALSE, FourColumns, FALSE, <<ShortRow>>) }
    \cup { SqlOk(FALSE, FourColumns, FALSE, rows) : rows \in SeqsUpTo(rowSet, MaxRows) }

\* What execute_statement answers a statement of _execute_sql: the column
\* list is None, empty or there, the row data is None, empty or there.
StatementOutcomes ==
    {SqlFails}
    \cup { SqlOk(cn, IF cn THEN << >> ELSE cols, dn, IF dn THEN << >> ELSE rows) :
             cn \in BOOLEAN, cols \in {<< >>, FourColumns},
             dn \in BOOLEAN, rows \in {<< >>} \cup SeqsUpTo(ReferencedByRowSet, 2) }

\* os.environ.get("WAREHOUSE_ID"): unset, empty, or an id.
WarehouseIds == {None, << >>, <<"wh1">>}

\* What w.tables.list answers.
ListOutcomes == {ListFails, ListOk(<< >>), ListOk(<<OrdersTable>>), ListOk(<<OrdersTable, ItemsTable>>)}

\* A constructed client on which no method has been called.
InitClient ==
    /\ AppFresh
    /\ last_call = NoCall
    /\ LoopIdle
    /\ uc_client = TRUE
    /\ world \in {CHOOSE e \in LoopEnvs : TRUE}

\* list_tables("demo", "sales")
CallListTables ==
    /\ last_call = NoCall
    /\ \E l \in ListOutcomes :
          LET env == Env(l, GetFails, None, SqlFails, SqlFails)
          IN last_call' = Call("list_tables", env, list_tables(<<"demo">>, <<"sales">>, env))
    /\ UNCHANGED loopVars
    /\ UNCHANGED appVars

\* _execute_sql(query, "demo", "sales")
CallExecuteSql ==
    /\ last_call = NoCall
    /\ \E w \in WarehouseIds, o \in StatementOutcomes :
          last_call' = Call("_execute_sql", [warehouse_id |-> w, outcome |-> o],
                            execute_sql(<<"SELECT 1">>, <<"demo">>, <<"sales">>, w, o))
    /\ UNCHANGED loopVars
    /\ UNCHANGED appVars

\* get_related_tables("demo", "sales", "orders")
CallGetRelatedTables ==
    /\ last_call = NoCall
    /\ \E w \in WarehouseIds,
          s1 \in QueryOutcomes(ReferencedByRowSet),
          s2 \in QueryOutcomes(ReferencesRowSet) :
          LET env == Env(ListFails, GetFails, w, s1, s2)
          IN last_call' = Call("get_related_tables", env,
                               get_related_tables(<<"demo">>, <<"sales">>, <<"orders">>, env))
    /\ UNCHANGED loopVars
    /\ UNCHANGED appVars

NextClient == CallListTables \/ CallExecuteSql \/ CallGetRelatedTables

SpecClient == InitClient /\ [][NextClient]_vars

-----------------------------------------------------------------------------
(* Properties of the Metadata Client *)

\* The rows a query outcome holds, as _execute_sql returns them.
RowsOf(outcome) == IF outcome.data_none THEN << >> ELSE outcome.data_array

\* The column pairs of the rows of `rows` whose constraint identifier (at
\* position cIdx) is c, in row order.
PairsOf(rows, c, cIdx, sIdx, gIdx) ==
    LET HasId(row) == row[cIdx] = c
        sel == SelectSeq(rows, HasId)
    IN [i \in 1..Len(sel) |-> [source |-> sel[i][sIdx], target |-> sel[i][gIdx]]]

\* Whether `edges` is the grouping of `rows` by constraint identifier: as
\* many edges as distinct identifiers, no identifier twice, and each edge
\* holding the column pairs of the rows of its identifier, in row order.
GroupedById(edges, rows, cIdx, sIdx, gIdx) ==
    /\ Len(edges) = Cardinality({rows[i][cIdx] : i \in 1..Len(rows)})
    /\ \A i, j \in 1..Len(edges) : edges[i].constraint = edges[j].constraint => i = j
    /\ \A i \in 1..Len(edges) :
          /\ \E k \in 1..Len(rows) : rows[k][cIdx] = edges[i].constraint
          /\ edges[i].columns = PairsOf(rows, edges[i].constraint, cIdx, sIdx, gIdx)

\* C14: a get_related_tables call that returns has grouped the rows of each
\* query by constraint identifier: one edge per distinct identifier, each
\* holding all column pairs of its rows in row order.
C14_GroupedByConstraint ==
    (last_call.op = "get_related_tables" /\ ~last_call.outcome.raised) =>
        /\ GroupedById(last_call.outcome.value.referenced_by,
                       RowsOf(last_call.input.sql[1]), 2, 3, 4)
        /\ GroupedById(last_call.outcome.value.references,
                       RowsOf(last_call.input.sql[2]), 1, 2, 4)

\* C14 witness: three referenced_by rows, the first and the third sharing a
\* constraint identifier, gave two edges, the first with two column pairs.
C14_Witness ==
    /\ last_call.op = "get_related_tables" /\ ~last_call.outcome.raised
    /\ Len(RowsOf(last_call.input.sql[1])) = 3
    /\ RowsOf(last_call.input.sql[1])[1][2] = <<"items_orders_fk">>
    /\ RowsOf(last_call.input.sql[1])[2][2] = <<"returns_orders_fk">>
    /\ RowsOf(last_call.input.sql[1])[3][2] = <<"items_orders_fk">>
    /\ RowsOf(last_call.input.sql[1])[3][3] = <<"order_line">>
    /\ RowsOf(last_call.input.sql[1])[1][3] = <<"order_id">>
    /\ Len(last_call.outcome.value.referenced_by) = 2
    /\ Len(last_call.outcome.value.referenced_by[1].columns) = 2

\* The number of times operation `op` occurs in `ops`.
Count(ops, op) == Cardinality({i \in 1..Len(ops) : ops[i] = op})

\* The text `whole` starts with the text `part`.
StartsWith(whole, part) ==
    /\ Len(whole) >= Len(part)
    /\ \A i \in 1..Len(part) : whole[i] = part[i]

\* C15, as claimed: without a warehouse id, _execute_sql issues no statement
\* and fails with an error of its own, which is not the error an execution
\* failure is wrapped in (RuntimeError "SQL execution failed: ...").
C15_ConfigurationErrorClaimed ==
    (last_call.op = "_execute_sql" /\ ~Truthy(last_call.input.warehouse_id)) =>
        /\ last_call.outcome.raised
        /\ Count(last_call.outcome.ops, "execute_statement") = 0
        /\ ~(/\ last_call.outcome.type = "RuntimeError"
             /\ StartsWith(last_call.outcome.msg, <<"SQL execution failed: ">>))

\* C16: a call of _execute_sql executes at most one statement and a failed
\* execution fails the call after that one statement; get_related_tables
\* executes at most two statements, and only one (or none, without a
\* warehouse id) when its first query fails.
C16_NoRetry ==
    /\ last_call.op = "_execute_sql" =>
          /\ Count(last_call.outcome.ops, "execute_statement") <= 1
          /\ (Truthy(last_call.input.warehouse_id) /\ last_call.input.outcome.raises) =>
                /\ last_call.outcome.raised
                /\ Count(last_call.outcome.ops, "execute_statement") = 1
    /\ last_call.op = "get_related_tables" =>
          /\ Count(last_call.outcome.ops, "execute_statement") <= 2
          /\ Count(last_call.outcome.ops, "_execute_sql") <= 2
          /\ (Truthy(last_call.input.warehouse_id) /\ last_call.input.sql[1].raises) =>
                /\ last_call.outcome.raised
                /\ Count(last_call.outcome.ops, "execute_statement") = 1
                /\ Count(last_call.outcome.ops, "_execute_sql") = 1
          /\ ~Truthy(last_call.input.warehouse_id) =>
                /\ last_call.outcome.raised
                /\ Count(last_call.outcome.ops, "execute_statement") = 0
                /\ Count(last_call.outcome.ops, "_execute_sql") = 1

\* C16 witness: the first query of get_related_tables failed while the
\* second would have answered rows; one statement was executed.
C16_Witness ==
    /\ last_call.op = "get_related_tables"
    /\ Truthy(last_call.input.warehouse_id)
    /\ last_call.input.sql[1].raises
    /\ ~last_call.input.sql[2].raises /\ Len(RowsOf(last_call.input.sql[2])) = 2
    /\ last_call.outcome.raised
    /\ last_call.outcome.ops = <<"get_related_tables", "_execute_sql", "execute_statement">>

\* C17: list_tables on a schema without tables returns the empty list, and
\* get_related_tables whose two queries answer no rows returns the table
\* with empty referenced_by and references; neither raises.
C17_EmptyIsValue ==
    /\ (/\ last_call.op = "list_tables"
        /\ ~last_call.input.list.raises
        /\ last_call.input.list.tables = << >>) =>
          /\ ~last_call.outcome.raised
          /\ last_call.outcome.value = << >>
    /\ (/\ last_call.op = "get_related_tables"
        /\ Truthy(last_call.input.warehouse_id)
        /\ ~last_call.input.sql[1].raises /\ RowsOf(last_call.input.sql[1]) = << >>
        /\ ~last_call.input.sql[2].raises /\ RowsOf(last_call.input.sql[2]) = << >>) =>
          /\ ~last_call.outcome.raised
          /\ last_call.outcome.value =
                [table |-> <<"orders">>, referenced_by |-> << >>, references |-> << >>]

\* C17 witness: get_related_tables returned while the first query answered
\* an empty row list and the second no row data.
C17_Witness ==
    /\ last_call.op = "get_related_tables"
    /\ ~last_call.input.sql[1].raises /\ ~last_call.input.sql[1].data_none
    /\ last_call.input.sql[1].data_array = << >>
    /\ ~last_call.input.sql[2].raises /\ last_call.input.sql[2].data_none
    /\ ~last_call.outcome.raised
    /\ last_call.outcome.value.references = << >>

\* C18: a response with a column list and no row data makes _execute_sql
\* return the column names and an empty row list.
C18_NullRowsEmpty ==
    (/\ last_call.op = "_execute_sql"
     /\ Truthy(last_call.input.warehouse_id)
     /\ ~last_call.input.outcome.raises
     /\ ~last_call.input.outcome.columns_none
     /\ last_call.input.outcome.columns # << >>
     /\ last_call.input.outcome.data_none) =>
        /\ ~last_call.outcome.raised
        /\ last_call.outcome.value =
              [columns |-> last_call.input.outcome.columns, rows |-> << >>]

\* C18 witness: such a response was answered to _execute_sql, which returned
\* the four column names.
C18_Witness ==
    /\ last_call.op = "_execute_sql"
    /\ last_call.input.warehouse_id = <<"wh1">>
    /\ ~last_call.input.outcome.raises
    /\ last_call.input.outcome.data_none
    /\ ~last_call.outcome.raised
    /\ Len(last_call.outcome.value.columns) = 4

-----------------------------------------------------------------------------
(* Further properties of send_chat_with_tools *)

\* The messages response r and the execution of its requests add to the
\* working conversation, by role, tool_call_id and requested ids.
RoundMessages(msgs, r) ==
    /\ Len(msgs) = 1 + Len(r.tool_calls)
    /\ msgs[1].role = "assistant"
    /\ msgs[1].content = r.content
    /\ [j \in 1..Len(msgs[1].tool_calls) |-> msgs[1].tool_calls[j].id]
          = [j \in 1..Len(r.tool_calls) |-> r.tool_calls[j].id]
    /\ \A j \in 1..Len(r.tool_calls) :
          /\ msgs[1 + j].role = "tool"
          /\ msgs[1 + j].tool_call_id = r.tool_calls[j].id

\* C19: every model call of the tool loop carries the three tool
\* declarations in their order, with tool choice "auto", and the working
\* conversation as it is when the call is issued; the first call submits the
\* caller's messages, and each later call submits what the call before it
\* submitted, extended by the assistant tool-call message of the response in
\* between and the tool messages of its requests; the working conversation
\* is only ever appended to.
C19_FullRequestAppendOnly ==
    /\ [](InToolRun =>
            /\ \A k \in 1..Len(calls) :
                  /\ [i \in 1..Len(calls[k].tools) |-> calls[k].tools[i].name]
                        = <<"list_tables", "get_table_details", "get_related_tables">>
                  /\ calls[k].tool_choice = "auto"
            /\ calls # << >> => calls[1].messages = messages
            /\ \A k \in 1..(Len(calls) - 1) :
                  LET before == calls[k].messages
                      after == calls[k + 1].messages
                  IN /\ Len(after) > Len(before)
                     /\ SubSeq(after, 1, Len(before)) = before
                     /\ RoundMessages(SubSeq(after, Len(before) + 1, Len(after)),
                                      responses[k]))
    /\ [][uc_client =>
             /\ Len(working_messages') >= Len(working_messages)
             /\ SubSeq(working_messages', 1, Len(working_messages)) = working_messages
             /\ calls' # calls =>
                   /\ Len(calls') = Len(calls) + 1
                   /\ calls'[Len(calls')].messages = working_messages]_vars

\* C19 witness: a third model call, after a round of two tool calls and a
\* round of one.
C19_Witness ==
    /\ InToolRun
    /\ Len(calls) = 3
    /\ Len(responses[1].tool_calls) = 2
    /\ Len(responses[2].tool_calls) = 1
    /\ Len(calls[3].messages) = Len(messages) + 5

\* C20: a run with a tool registry and budget n issues at most n model
\* calls and ends, by returning or raising; with n = 0 it issues no model
\* call, executes no tool and returns the fixed text.
C20_BudgetBoundsRun ==
    /\ [](InToolRun =>
            /\ Len(calls) <= max_iterations
            /\ iteration <= max_iterations
            /\ max_iterations = 0 =>
                  /\ calls = << >>
                  /\ mdOps = << >> /\ exec = NoExec
                  /\ pc \in {"loop", "returned"}
                  /\ pc = "returned" => result = Returned(LimitReachedText))
    /\ (uc_client /\ pc = "loop") ~> (pc \in {"returned", "raised"})

\* C20 witness: a run with budget 0 has returned the fixed text.
C20_Witness ==
    /\ InToolRun
    /\ max_iterations = 0
    /\ pc = "returned"
    /\ calls = << >>
    /\ result = Returned(LimitReachedText)

\* C21: from the call of send_chat_with_tools on, the caller's message list
\* never changes, whether the run returns a text answer, returns at the
\* iteration limit or raises: it stays a prefix of the working copy and
\* holds no tool-role message and no assistant tool-call message of the run.
C21_CallerListUnchanged ==
    /\ [][pc # "idle" => messages' = messages]_vars
    /\ [](InToolRun =>
            /\ Len(messages) <= Len(working_messages)
            /\ SubSeq(working_messages, 1, Len(messages)) = messages
            /\ \A i \in 1..Len(messages) :
                  messages[i].role \in {"system", "user"} /\ messages[i].tool_calls = << >>)

\* C21 witness: a run that appended an assistant tool-call message and two
\* tool messages to its working copy has returned, the caller's list still
\* holding its two messages.
C21_Witness ==
    /\ InToolRun /\ pc = "returned"
    /\ Len(working_messages) >= 5
    /\ working_messages[4].role = "tool"
    /\ Len(messages) = 2

-----------------------------------------------------------------------------
(* Further properties of the session history *)

\* C22: once the script has run, the session history is one system message
\* followed by (user, assistant) pairs in alternation, and no script run
\* has crashed; a submitted prompt made exactly one call of
\* call_serving_chat and appended exactly the user message and one
\* assistant message to the history the handler was entered with, also
\* when the call failed; "Clear chat" leaves the single system message.
C22_HistoryShape ==
    app_pc # "fresh" =>
        /\ app_pc = "ready"
        /\ Len(session_messages) % 2 = 1
        /\ \A i \in 1..Len(session_messages) :
              session_messages[i].role =
                  (IF i = 1 THEN "system" ELSE IF i % 2 = 0 THEN "user" ELSE "assistant")
        /\ last_event.kind = "prompt" =>
              /\ serving_calls = 1
              /\ Len(session_messages) = Len(turn_start) + 2
              /\ SubSeq(session_messages, 1, Len(turn_start)) = turn_start
              /\ session_messages[Len(turn_start) + 1] = Message("user", prompt)
              /\ session_messages[Len(turn_start) + 2].role = "assistant"
        /\ last_event.kind # "prompt" => serving_calls = 0
        /\ last_event.kind = "clear" =>
              session_messages = <<Message("system", system_prompt)>>

\* C22 witness: a failed turn followed by a turn that was answered.
C22_Witness ==
    /\ app_pc = "ready"
    /\ last_event.kind = "prompt" /\ ~last_event.raised
    /\ Len(session_messages) = 5
    /\ session_messages[3].content = <<"Error: ", "connection refused">>
    /\ session_messages[5].content = <<"Hi!">>

-----------------------------------------------------------------------------
(* Tool-call arguments that are no JSON *)

\* The request the inner loop is about to process has arguments that are
\* no valid JSON.
NextArgumentsMalformed ==
    /\ pc = "exec_tools"
    /\ tool_calls[tc_index + 1].arguments.form = "malformed"

\* The requests the run has executed: all of every response but the last,
\* and the first tc_index of the last.
ExecutedRequests ==
    Concat([i \in 1..Len(responses) |->
              IF i = Len(responses) THEN SubSeq(responses[i].tool_calls, 1, tc_index)
              ELSE responses[i].tool_calls])

\* C23: when the arguments of the request the inner loop comes to are no
\* valid JSON, the run raises at once (JSONDecodeError): no tool message is
\* appended for the request, nothing is executed for it, and no model call
\* is issued; a run that has raised does nothing more, so the requests
\* after it stay unexecuted; and the requests before it have each been
\* executed once, each with its one tool message.
C23_MalformedArgumentsAbort ==
    /\ [][NextArgumentsMalformed =>
             /\ pc' = "raised"
             /\ result' = Raised("JSONDecodeError", <<"Expecting value">>)
             /\ working_messages' = working_messages
             /\ tc_index' = tc_index
             /\ mdOps' = mdOps /\ exec' = exec
             /\ calls' = calls]_vars
    /\ [][pc = "raised" => UNCHANGED vars]_vars
    /\ []((InToolRun /\ pc = "raised" /\ result.type = "JSONDecodeError") =>
            /\ tc_index < Len(tool_calls)
            /\ tool_calls = responses[Len(responses)].tool_calls
            /\ tool_calls[tc_index + 1].arguments.form = "malformed"
            /\ Len(calls) = Len(responses)
            /\ Shape(Appended(working_messages)) = ExpectedShape(Len(responses), TRUE)
            /\ Count(Shape(Appended(working_messages)), <<"assistant", NoId>>)
                  = Len(responses)
            /\ Len(Appended(working_messages)) = Len(responses) + Len(ExecutedRequests)
            /\ Count(mdOps, "list_tables")
                  = Cardinality({i \in 1..Len(ExecutedRequests) :
                                    /\ ExecutedRequests[i].name = "list_tables"
                                    /\ ExecutedRequests[i].arguments.form = "object"}))

\* C23 witness: the second request of a response had arguments that are no
\* JSON; the first, a list_tables call, was executed once and has its tool
\* message, and the run raised.
C23_Witness ==
    /\ InToolRun /\ pc = "raised" /\ result.type = "JSONDecodeError"
    /\ Len(responses) = 1 /\ Len(tool_calls) = 2
    /\ tc_index = 1
    /\ tool_calls[1].id = "call_a"
    /\ Shape(Appended(working_messages)) = << <<"assistant", NoId>>, <<"tool", "call_a">> >>
    /\ mdOps = <<"list_tables", "w.tables.list">>
    /\ Len(calls) = 1

-----------------------------------------------------------------------------
(* Arguments that are present but empty *)

\* The parameters the definition of the declared tool `name` requires.
RequiredOf(name) ==
    LET i == CHOOSE j \in 1..Len(get_function_definitions) :
                 get_function_definitions[j].name = name
    IN Range(get_function_definitions[i].required)

\* The last execute_tool call was for a declared tool, with an arguments
\* mapping.
DeclaredToolCalled ==
    /\ exec.called
    /\ exec.arguments.kind = "dict"
    /\ exec.tool_name \in {"list_tables", "get_table_details", "get_related_tables"}

\* The missing-parameter text of the tool called last.
MissingTextOf(name) ==
    IF name = "list_tables"
    THEN <<"Error: catalog and schema are required parameters">>
    ELSE <<"Error: catalog, schema, table are required parameters">>

\* C24, as claimed: when every required argument is in the arguments
\* mapping, whatever its value, execute_tool invokes the tool's Metadata
\* Client operation exactly once, and it returns the missing-parameter text
\* only when a required argument is absent from the mapping.
C24_PresentDispatchedClaimed ==
    DeclaredToolCalled =>
        /\ (\A k \in RequiredOf(exec.tool_name) : exec.arguments.d[k] # Absent) =>
              Count(exec.ops, exec.tool_name) = 1
        /\ exec.text = MissingTextOf(exec.tool_name) =>
              \E k \in RequiredOf(exec.tool_name) : exec.arguments.d[k] = Absent

\* C24, amended: execute_tool invokes the tool's Metadata Client operation
\* exactly once when every required argument is in the mapping with a value
\* that is neither null nor the empty string; when a required argument is
\* absent, null or the empty string it returns the missing-parameter text
\* and invokes no operation.
C24_TruthyDispatched ==
    DeclaredToolCalled =>
        LET falsy == {k \in RequiredOf(exec.tool_name) :
                        exec.arguments.d[k] \in {Absent, None, << >>}}
        IN /\ falsy = {} =>
                 /\ Count(exec.ops, exec.tool_name) = 1
                 /\ exec.text # MissingTextOf(exec.tool_name)
           /\ falsy # {} =>
                 /\ exec.text = MissingTextOf(exec.tool_name)
                 /\ exec.ops = << >>
                 /\ ~exec.raised

\* C24 witness: list_tables was called with the catalog present as the
\* empty string and a schema name, and answered the missing-parameter text.
C24_Witness ==
    /\ DeclaredToolCalled
    /\ exec.tool_name = "list_tables"
    /\ exec.arguments.d["catalog"] = << >>
    /\ exec.arguments.d["schema"] = <<"demo">>
    /\ exec.text = <<"Error: catalog and schema are required parameters">>
    /\ exec.ops = << >>

====
